---- MODULE Spec2Model ----
(***************************************************************************)
(* Model of scripts/generate_fixtures.py: the fixture generation run       *)
(* (main), the conversion hop (soffice_convert), the rasterization of a    *)
(* variant (render_to_pngs, pdftoppm_png) and the manifest.                *)
(*                                                                         *)
(* The file system is modelled per case workspace.  A file's content is a  *)
(* tuple <<generation, origin, hop, ...>>: the generation is "old" for a   *)
(* file an earlier run left and "new" for one this run wrote, and every    *)
(* conversion appends its target extension, so a content records the chain *)
(* of hops that produced it.  The empty tuple stands for "no such file".   *)
(***************************************************************************)
EXTENDS Integers, Sequences, FiniteSets, TLC

VARIABLES
    pc,        \* position of main (or "failed" once an exception left main)
    ci,        \* index into specs of the case the current loop is at
    variant,   \* "ppt" or "pptx": which render_to_pngs call is running
    ws,        \* the case workspaces, by index into specs
    out_path,  \* the path soffice_convert returned (a file of _lo_out)
    res,       \* the subprocess result run() holds while its caller is live
    exc,       \* the exception that left main, if any
    clock,     \* file system time, for modification times
    manifest,  \* manifest.json at ROOT
    log,       \* history: tool invocations and artifact writes, in order
    single     \* history: every zero-exit conversion so far wrote exactly one file

vars == <<pc, ci, variant, ws, out_path, res, exc, clock, manifest, log, single>>

---------------------------------------------------------------------------
(* Bounds *)

NumCases == 2        \* length of the registry prefix that is run
MaxPages == 99       \* page counts 1..MaxPages for a single render_to_pngs
StalePages == 3      \* page images an earlier run left behind

---------------------------------------------------------------------------
(* The registry *)

CaseIds ==
    <<"000_blank", "010_text_basic", "011_text_bullets", "020_shapes_basic",
      "021_line_styles", "030_images_basic", "031_images_crop_rotate",
      "040_table_basic", "050_chart_bar", "060_hyperlink", "080_multislide">>

CaseLevels ==
    <<"core", "core", "core", "core", "extended", "core", "extended",
      "extended", "hard", "extended", "core">>

CaseSlides == <<1, 1, 1, 1, 1, 1, 1, 1, 1, 1, 2>>

\* cases(): the first NumCases entries of the registry, in registry order
specs ==
    [i \in 1..NumCases |->
        [id |-> CaseIds[i], slides |-> CaseSlides[i], level |-> CaseLevels[i],
         build |-> <<"builder", CaseIds[i]>>]]

Variants == {"ppt", "pptx"}

\* the page counts of the documents of a run: those the registry declares
RunPages == {CaseSlides[i] : i \in 1..Len(CaseSlides)}

---------------------------------------------------------------------------
(* Files *)

NoFile == <<>>

Author(gen) == <<gen, "author">>
Meta(gen) == <<gen, "meta">>

\* what the conversion tool writes for an input: the input's chain plus the hop
Converted(content, ext) == Append(content, ext)

\* a file the tool left half-written when it failed
Partial(content, ext) == Append(Append(content, ext), "partial")

\* the image of page k of a fixed-layout document
PageImage(pdf, k) == [doc |-> pdf, page |-> k]

Gen(content) == IF content = NoFile THEN "none" ELSE content[1]

NoTmp == [exists |-> FALSE, files |-> {}]
EmptyTmp == [exists |-> TRUE, files |-> {}]

NoRender == [pdf |-> NoFile, pngs |-> {}]

FreshWorkspace ==
    [author |-> NoFile, meta |-> NoFile, ref_ppt |-> NoFile, ref_pptx |-> NoFile,
     tmp |-> NoTmp, render |-> [v \in Variants |-> NoRender]]

---------------------------------------------------------------------------
(* Strings, as sequences of character codes: "0".."9" are 48..57, "." is 46 *)

RECURSIVE DigitChars(_)
\* str(n) for n >= 0
DigitChars(n) ==
    IF n < 10 THEN <<48 + n>> ELSE Append(DigitChars(n \div 10), 48 + (n % 10))

NumDigits(n) == Len(DigitChars(n))

\* format(n, "0{w}d"): zero-padded to at least w characters
ZeroPad(n, w) ==
    LET d == DigitChars(n)
    IN  IF Len(d) >= w THEN d ELSE [i \in 1..(w - Len(d)) |-> 48] \o d

\* f"{idx:03d}" of "slide-{idx:03d}.png"
SlideSuffix(idx) == ZeroPad(idx, 3)

RECURSIVE StrLessFrom(_, _, _)
StrLessFrom(a, b, i) ==
    IF i > Len(b) THEN FALSE
    ELSE IF i > Len(a) THEN TRUE
    ELSE IF a[i] # b[i] THEN a[i] < b[i]
    ELSE StrLessFrom(a, b, i + 1)

\* Python's str "<": lexicographic by character code
StrLess(a, b) == StrLessFrom(a, b, 1)

\* "<prefix>-<suffix>.png": two paths of one prefix differ from the suffix on
PathTail(f) == Append(f.suf, 46)

---------------------------------------------------------------------------
(* History *)

Ev(c, stage, ev, rc, n) == [c |-> c, stage |-> stage, ev |-> ev, rc |-> rc, n |-> n]

Wrote(c, stage) == Ev(c, stage, "write", 0, 0)

HasEv(c, stage, ev) == \E i \in 1..Len(log) :
    log[i].c = c /\ log[i].stage = stage /\ log[i].ev = ev

---------------------------------------------------------------------------
(* Exceptions and subprocess results *)

NoExc == [type |-> "none", tool |-> "", rc |-> 0, out |-> "", err |-> "", cmd |-> <<>>]
NoRes == [rc |-> 0, out |-> "", err |-> "", live |-> FALSE]
NoPath == [base |-> "", ext |-> "", mtime |-> 0, content |-> NoFile]

ExitCodes == {0, 1, 77}

\* the captured stdout and stderr of a subprocess
Streams == {[out |-> "", err |-> ""], [out |-> "convert", err |-> "Error"]}

RaiseBestEffort(e, evs) ==
    /\ pc' = (IF pc = "author" THEN "meta" ELSE "cleanup")
    /\ exc' = e
    /\ log' = log \o evs \o <<Ev(ci, pc, "raise", e.rc, 0)>>
    /\ UNCHANGED <<ci, variant, out_path, manifest>>

\* An exception raised at the current step: nothing in main catches it, so main
\* ends there. `evs` is what the step did before it raised.
Raise(e, evs) ==
    /\ pc' = "failed"
    /\ exc' = e
    /\ log' = log \o evs \o <<Ev(ci, pc, "raise", e.rc, 0)>>
    /\ UNCHANGED <<ci, variant, out_path, manifest>>

---------------------------------------------------------------------------
(* soffice_convert *)

Named(dir, base, ext) == {f \in dir : f.base = base /\ f.ext = ext}
WithExt(dir, ext) == {f \in dir : f.ext = ext}
Newest(S) == {f \in S : \A g \in S : g.mtime <= f.mtime}

ResolveNewestOnly(dir, base, ext) == Newest(WithExt(dir, ext))

\* The paths soffice_convert can return for a directory's content (files of one
\* modification time come in the order glob lists them); empty: none found.
Resolve(dir, base, ext) ==
    IF Named(dir, base, ext) # {} THEN Named(dir, base, ext)
    ELSE Newest(WithExt(dir, ext))

\* a directory after the files W were written into it (same name: replaced)
WriteFiles(dir, W) ==
    {f \in dir : ~\E w \in W : w.base = f.base /\ w.ext = f.ext} \cup W

File(base, ext, mtime, content) ==
    [base |-> base, ext |-> ext, mtime |-> mtime, content |-> content]

\* What a zero-exit conversion may leave in outdir: the tool's naming is not
\* predictable, so any set of files drawn from the expected name and another.
ToolOutputs(input, base, ext, t) ==
    SUBSET {File(base, ext, t, Converted(input, ext)),
            File("out", ext, t, Converted(input, ext))}

\* What a failed conversion may leave in outdir
ToolDebris(input, base, ext, t) ==
    {{}, {File(base, ext, t, Partial(input, ext))}}

SofficeCmd(inpath, ext) == <<"soffice", "--convert-to", ext, "--outdir", "_lo_out", inpath>>

SofficeError(rc, o, e, cmd) ==
    [type |-> "RuntimeError", tool |-> "soffice", rc |-> rc, out |-> o, err |-> e, cmd |-> cmd]

NotFoundError(cmd) ==
    [type |-> "FileNotFoundError", tool |-> "soffice", rc |-> 0, out |-> "", err |-> "", cmd |-> cmd]

\* line 56: os.path.splitext(os.path.basename(input_path))[0]
Stem(inpath) ==
    CASE inpath = "author.pptx" -> "author"
      [] inpath = "ref.ppt" -> "ref"
      [] inpath = "ref.pptx" -> "ref"

\* soffice_convert(input, tmp, ext) for the current case, at stage `stage`;
\* `w` is the workspace as its caller left it, `input` the content of the file
\* at `inpath`, `next` the caller's next step.
SofficeConvert(stage, w, inpath, input, ext, next) ==
    /\ clock' = clock + 1
    /\ \E base \in {Stem(inpath)}, rc \in ExitCodes :
        \/ /\ rc # 0
           /\ \E D \in ToolDebris(input, base, ext, clock') :
                ws' = [ws EXCEPT ![ci] =
                        [w EXCEPT !.tmp = [exists |-> TRUE, files |-> WriteFiles(w.tmp.files, D)]]]
           /\ \E io \in Streams : res' = [rc |-> rc, out |-> io.out, err |-> io.err, live |-> TRUE]
           /\ Raise(SofficeError(res'.rc, res'.out, res'.err, SofficeCmd(inpath, ext)),
                    <<Ev(ci, stage, "soffice", rc, 0)>>)
           /\ UNCHANGED single
        \/ /\ rc = 0
           /\ \E F \in ToolOutputs(input, base, ext, clock') :
                LET dir == WriteFiles(w.tmp.files, F)
                    evs == <<Ev(ci, stage, "soffice", 0, 0)>>
                IN  /\ ws' = [ws EXCEPT ![ci] =
                                [w EXCEPT !.tmp = [exists |-> TRUE, files |-> dir]]]
                    /\ single' = (single /\ Cardinality(F) = 1)
                    /\ \/ /\ Resolve(dir, base, ext) = {}
                          /\ \E io \in Streams :
                                res' = [rc |-> rc, out |-> io.out, err |-> io.err, live |-> TRUE]
                          /\ Raise(NotFoundError(SofficeCmd(inpath, ext)), evs)
                       \/ /\ \E r \in Resolve(dir, base, ext) : out_path' = r
                          /\ res' = NoRes
                          /\ pc' = next
                          /\ log' = log \o evs
                          /\ UNCHANGED <<ci, variant, exc, manifest>>

---------------------------------------------------------------------------
(* pdftoppm_png and the page images of a render directory *)

\* a page image file of a render directory: kind "slide" is slide-<suf>.png,
\* kind "raw" is __raw_slide-<suf>.png
Png(kind, suf, content) == [kind |-> kind, suf |-> suf, content |-> content]

\* glob(<fmt_dir>/slide-*.png), glob(<fmt_dir>/__raw_slide-*.png)
GlobPngs(dir, kind) == {f \in dir : f.kind = kind}

KeepSlides(dir) == dir

\* lines 276-277: remove every slide-*.png
ClearSlides(dir) == dir \ GlobPngs(dir, "slide")

\* lines 285-286 and 290-291: remove every __raw_slide-*.png
ClearRaw(dir) == dir \ GlobPngs(dir, "raw")

\* The widths pdftoppm pads its page numbers to: as many digits as the last
\* page number has (poppler), or six (xpdf).
PadWidths(n) == {NumDigits(n), 6}

\* the files pdftoppm writes for an n-page document
PdftoppmOutput(pdf, n, wd) == {Png("raw", ZeroPad(k, wd), PageImage(pdf, k)) : k \in 1..n}

\* what a failed pdftoppm may leave: nothing, or a first page
PdftoppmDebris(pdf) == {{}, {Png("raw", ZeroPad(1, 1), PageImage(Append(pdf, "partial"), 1))}}

PdftoppmError(rc, o, e) ==
    [type |-> "RuntimeError", tool |-> "pdftoppm", rc |-> rc, out |-> o, err |-> e, cmd |-> <<>>]

RankReversed(S, x) == 1 + Cardinality({y \in S : StrLess(PathTail(x), PathTail(y))})

\* the 1-based position of x in sorted(S), the paths compared as strings
Rank(S, x) == 1 + Cardinality({y \in S : StrLess(PathTail(y), PathTail(x))})

\* lines 288-289: os.replace(fp, slide-{idx:03d}.png) for idx, fp in
\* enumerate(pngs, start=1), pngs being the sorted files of the glob
RenameAll(dir, pngs) ==
    LET renamed == {Png("slide", SlideSuffix(Rank(pngs, x)), x.content) : x \in pngs}
    IN  {f \in dir : f \notin pngs /\ ~\E g \in renamed : g.kind = f.kind /\ g.suf = f.suf}
            \cup renamed

---------------------------------------------------------------------------
(* main: the authoring loop *)

W == ws[ci]

Last == ci = NumCases

\* lines 303-308: the builder runs on a fresh presentation, which is saved
BuildAuthor ==
    /\ pc = "author"
    /\ \/ /\ ws' = [ws EXCEPT ![ci].author = Author("new")]
          /\ pc' = "meta"
          /\ log' = Append(log, Wrote(ci, "author"))
          /\ UNCHANGED <<ci, variant, out_path, exc, manifest>>
       \/ /\ Raise([NoExc EXCEPT !.type = "BuilderError"], <<>>)
          /\ UNCHANGED ws
    /\ UNCHANGED <<res, clock, single>>

WriteMetaThenConvert ==
    /\ pc = "meta"
    /\ ws' = [ws EXCEPT ![ci].meta = Meta("new")]
    /\ log' = Append(log, Wrote(ci, "meta"))
    /\ pc' = "tmp"
    /\ UNCHANGED <<ci, variant, out_path, res, exc, clock, manifest, single>>

\* lines 310-320: meta.json, then the next case of the first loop
WriteMeta ==
    /\ pc = "meta"
    /\ ws' = [ws EXCEPT ![ci].meta = Meta("new")]
    /\ log' = Append(log, Wrote(ci, "meta"))
    /\ IF Last THEN ci' = 1 /\ pc' = "tmp" ELSE ci' = ci + 1 /\ pc' = "author"
    /\ UNCHANGED <<variant, out_path, res, exc, clock, manifest, single>>

---------------------------------------------------------------------------
(* main: the conversion loop *)

KeepTmp(tmp) == [exists |-> TRUE, files |-> tmp.files]

\* lines 326-328: rmtree(tmp) if it exists, then makedirs
FreshTmp(tmp) == EmptyTmp

PrepTmp ==
    /\ pc = "tmp"
    /\ ws' = [ws EXCEPT ![ci].tmp = FreshTmp(W.tmp)]
    /\ pc' = "hop1"
    /\ UNCHANGED <<ci, variant, out_path, res, exc, clock, manifest, log, single>>

ReplaceIfAbsent(old, new) == IF old = NoFile THEN new ELSE old

\* lines 336-338 (and 342-344, 280-282): remove the destination if it exists,
\* then move the converted file there; the destination's content afterwards
Replace(old, new) == new

\* _lo_out after the file at `path` was moved out of it
MovedOut(tmp, path) == [tmp EXCEPT !.files = tmp.files \ {path}]

\* line 335
Hop1Convert ==
    /\ pc = "hop1"
    /\ SofficeConvert("hop1", W, "author.pptx", W.author, "ppt", "mv1")

\* lines 336-338
Hop1Move ==
    /\ pc = "mv1"
    /\ ws' = [ws EXCEPT ![ci] = [W EXCEPT !.ref_ppt = Replace(W.ref_ppt, out_path.content),
                                         !.tmp = MovedOut(W.tmp, out_path)]]
    /\ pc' = "hop2"
    /\ out_path' = NoPath
    /\ log' = Append(log, Wrote(ci, "hop1"))
    /\ UNCHANGED <<ci, variant, res, exc, clock, manifest, single>>

\* line 341
Hop2Convert ==
    /\ pc = "hop2"
    /\ SofficeConvert("hop2", W, "ref.ppt", W.ref_ppt, "pptx", "mv2")

\* lines 342-344, and the call of render_to_pngs for the legacy variant
Hop2Move ==
    /\ pc = "mv2"
    /\ ws' = [ws EXCEPT ![ci] = [W EXCEPT !.ref_pptx = Replace(W.ref_pptx, out_path.content),
                                         !.tmp = MovedOut(W.tmp, out_path)]]
    /\ pc' = "r_convert"
    /\ variant' = "ppt"
    /\ out_path' = NoPath
    /\ log' = Append(log, Wrote(ci, "hop2"))
    /\ UNCHANGED <<ci, res, exc, clock, manifest, single>>

---------------------------------------------------------------------------
(* render_to_pngs *)

RenderStage(v) == IF v = "ppt" THEN "render_ppt" ELSE "render_pptx"

InPath(v) == IF v = "ppt" THEN "ref.ppt" ELSE "ref.pptx"

InFile(w, v) == IF v = "ppt" THEN w.ref_ppt ELSE w.ref_pptx

RenderPreparedNoPdf(w, v) ==
    [w EXCEPT !.render[v] = [pdf |-> NoFile, pngs |-> ClearSlides(@.pngs)]]

\* lines 275-277: the workspace when render_to_pngs calls soffice_convert
RenderPrepared(w, v) == [w EXCEPT !.render[v].pngs = ClearSlides(@)]

\* lines 275-278: clear the page images, convert the variant to pdf
RenderConvert ==
    /\ pc = "r_convert"
    /\ SofficeConvert(RenderStage(variant), RenderPrepared(W, variant),
                      InPath(variant), InFile(W, variant), "pdf", "r_move")

\* lines 279-282
RenderMove ==
    /\ pc = "r_move"
    /\ ws' = [ws EXCEPT ![ci] =
                [W EXCEPT !.render[variant].pdf = Replace(@, out_path.content),
                          !.tmp = MovedOut(W.tmp, out_path)]]
    /\ pc' = "r_raster"
    /\ out_path' = NoPath
    /\ log' = Append(log, Ev(ci, RenderStage(variant), "pdf", 0, 0))
    /\ UNCHANGED <<ci, variant, res, exc, clock, manifest, single>>

\* lines 284-291, the document having n pages; then the return to main, which
\* calls render_to_pngs for the modern variant or goes on to line 351
RenderRaster(n) ==
    /\ pc = "r_raster"
    /\ LET r == W.render[variant]
           cleared == ClearRaw(r.pngs)
           call == Ev(ci, RenderStage(variant), "pdftoppm", 0, 0)
       IN  \E rc \in ExitCodes :
            \/ /\ rc # 0
               /\ \E D \in PdftoppmDebris(r.pdf) :
                    ws' = [ws EXCEPT ![ci].render[variant].pngs = cleared \cup D]
               /\ \E io \in Streams :
                    res' = [rc |-> rc, out |-> io.out, err |-> io.err, live |-> TRUE]
               /\ Raise(PdftoppmError(res'.rc, res'.out, res'.err), <<[call EXCEPT !.rc = rc]>>)
            \/ /\ rc = 0
               /\ \E wd \in PadWidths(n) :
                    LET written == cleared \cup PdftoppmOutput(r.pdf, n, wd)
                        pngs == GlobPngs(written, "raw")
                    IN  ws' = [ws EXCEPT ![ci].render[variant].pngs =
                                    ClearRaw(RenameAll(written, pngs))]
               /\ res' = NoRes
               /\ log' = log \o <<call, Ev(ci, RenderStage(variant), "pages", 0, n)>>
               /\ IF variant = "ppt"
                    THEN variant' = "pptx" /\ pc' = "r_convert"
                    ELSE variant' = variant /\ pc' = "cleanup"
               /\ UNCHANGED <<ci, out_path, exc, manifest>>
    /\ UNCHANGED <<clock, single>>

---------------------------------------------------------------------------
(* main: the end of a case, and the manifest *)

\* line 351, then the next case of the second loop
Cleanup ==
    /\ pc = "cleanup"
    /\ ws' = [ws EXCEPT ![ci].tmp = NoTmp]
    /\ IF Last THEN ci' = ci /\ pc' = "manifest" ELSE ci' = ci + 1 /\ pc' = "tmp"
    /\ UNCHANGED <<variant, out_path, res, exc, clock, manifest, log, single>>

Summary(c) == [id |-> c.id, slides |-> c.slides, level |-> c.level]

RenderedPages(i) == Cardinality(GlobPngs(ws[i].render["pptx"].pngs, "slide"))

ManifestCasesRendered(sp) ==
    [i \in DOMAIN sp |-> [Summary(sp[i]) EXCEPT !.slides = RenderedPages(i)]]

\* lines 358-368: one summary per case of the registry, the builder left out
ManifestCases(sp) == [i \in DOMAIN sp |-> Summary(sp[i])]

NoManifest == [gen |-> "none", cases |-> <<>>]

\* lines 354-373
WriteManifest ==
    /\ pc = "manifest"
    /\ manifest' = [gen |-> "new", cases |-> ManifestCases(specs)]
    /\ log' = Append(log, Wrote(0, "manifest"))
    /\ pc' = "done"
    /\ UNCHANGED <<ci, variant, ws, out_path, res, exc, clock, single>>

---------------------------------------------------------------------------
(* What an earlier run can have left in a case workspace *)

OldPpt == Converted(Author("old"), "ppt")
OldPptx == Converted(OldPpt, "pptx")
OldPdf(v) == Converted(IF v = "ppt" THEN OldPpt ELSE OldPptx, "pdf")

StaleSlides(v) == {Png("slide", SlideSuffix(k), PageImage(OldPdf(v), k)) : k \in 1..StalePages}

\* an earlier run that completed, with StalePages pages per variant
OldComplete ==
    [author |-> Author("old"), meta |-> Meta("old"), ref_ppt |-> OldPpt, ref_pptx |-> OldPptx,
     tmp |-> NoTmp,
     render |-> [v \in Variants |-> [pdf |-> OldPdf(v), pngs |-> StaleSlides(v)]]]

\* an earlier run that aborted in the rasterization of the legacy variant, after
\* conversions that wrote a second file each; the modern variant's render
\* directory is the one of a still earlier run
OldAborted ==
    [OldComplete EXCEPT
        !.tmp = [exists |-> TRUE,
                 files |-> {File("out", "ppt", 0, OldPpt), File("out", "pptx", 0, OldPptx),
                            File("out", "pdf", 0, OldPdf("ppt"))}],
        !.render["ppt"] = [pdf |-> OldPdf("ppt"),
                           pngs |-> {Png("raw", ZeroPad(1, 1), PageImage(OldPdf("ppt"), 1))}]]

InitWorkspaces == {FreshWorkspace, OldComplete, OldAborted}

OldManifest == [gen |-> "old", cases |-> [i \in 1..NumCases |-> Summary(specs[i])]]

---------------------------------------------------------------------------
(* The run: main from its first line *)

Init ==
    /\ pc = "author"
    /\ ci = 1
    /\ variant = "ppt"
    /\ ws \in [1..NumCases -> InitWorkspaces]
    /\ out_path = NoPath
    /\ res = NoRes
    /\ exc = NoExc
    /\ clock = 1
    /\ manifest = (IF \A i \in 1..NumCases : ws[i] = FreshWorkspace
                    THEN NoManifest ELSE OldManifest)
    /\ log = <<>>
    /\ single = TRUE

Next ==
    \/ BuildAuthor
    \/ WriteMeta
    \/ PrepTmp
    \/ Hop1Convert
    \/ Hop1Move
    \/ Hop2Convert
    \/ Hop2Move
    \/ RenderConvert
    \/ RenderMove
    \/ \E n \in RunPages : RenderRaster(n)
    \/ Cleanup
    \/ WriteManifest

Spec == Init /\ [][Next]_vars

---------------------------------------------------------------------------
(* soffice_convert on its own: one call, for every content of the directory *)

\* a case workspace of this run when main is at step p
MidRun(w, p) ==
    [w EXCEPT !.author = Author("new"),
              !.meta = Meta("new"),
              !.ref_ppt = IF p = "hop1" THEN @ ELSE Converted(Author("new"), "ppt"),
              !.ref_pptx = IF p \in {"hop1", "hop2"} THEN @
                           ELSE Converted(Converted(Author("new"), "ppt"), "pptx")]

TargetExt(p) == CASE p = "hop1" -> "ppt" [] p = "hop2" -> "pptx" [] p = "r_convert" -> "pdf"

SourcePath(p, v) == CASE p = "hop1" -> "author.pptx" [] p = "hop2" -> "ref.ppt"
                      [] p = "r_convert" -> InPath(v)

\* the directories soffice_convert can find: each of the expected name, two
\* other names of the target extension and one of another extension is absent
\* or present with one of two modification times
Dirs(base, ext) ==
    LET names == {<<base, ext>>, <<"out", ext>>, <<"slides", ext>>, <<base, "tmp">>}
        present == [names -> {-1, 0, 1}]
    IN  {{File(nm[1], nm[2], m[nm], <<"old", nm[1], nm[2]>>) : nm \in {x \in names : m[x] >= 0}}
            : m \in {f \in present : f[<<base, "tmp">>] <= 0}}

ConvertInit ==
    /\ pc \in {"hop1", "hop2", "r_convert"}
    /\ ci = 1
    /\ variant \in (IF pc = "r_convert" THEN Variants ELSE {"ppt"})
    /\ \E w \in {FreshWorkspace, OldComplete},
          d \in Dirs(Stem(SourcePath(pc, variant)), TargetExt(pc)) :
            ws = [i \in 1..NumCases |->
                    IF i = 1 THEN [MidRun(w, pc) EXCEPT !.tmp = [exists |-> TRUE, files |-> d]]
                    ELSE MidRun(w, "hop1")]
    /\ out_path = NoPath
    /\ res = NoRes
    /\ exc = NoExc
    /\ clock = 1
    /\ manifest = NoManifest
    /\ log = <<>>
    /\ single = TRUE

ConvertNext ==
    \/ Hop1Convert
    \/ Hop2Convert
    \/ RenderConvert

ConvertSpec == ConvertInit /\ [][ConvertNext]_vars

---------------------------------------------------------------------------
(* render_to_pngs on its own: one call, for 1..MaxPages pages *)

\* what the render directory can hold when render_to_pngs is called
RenderDirs(v) ==
    {NoRender,
     [pdf |-> OldPdf(v), pngs |-> StaleSlides(v)],
     [pdf |-> OldPdf(v),
      pngs |-> StaleSlides(v) \cup
               {Png("raw", ZeroPad(k, 1), PageImage(OldPdf(v), k)) : k \in 1..StalePages}
               \cup {Png("slide", ZeroPad(0, 1), PageImage(OldPdf(v), 1)),
                     Png("raw", ZeroPad(StalePages, 6), PageImage(OldPdf(v), 1))}]}

RenderInit ==
    /\ pc = "r_convert"
    /\ ci = 1
    /\ variant \in Variants
    /\ \E d \in RenderDirs(variant) :
            ws = [i \in 1..NumCases |->
                    IF i = 1
                    THEN [MidRun(OldComplete, pc) EXCEPT !.tmp = EmptyTmp, !.render[variant] = d]
                    ELSE MidRun(OldComplete, "hop1")]
    /\ out_path = NoPath
    /\ res = NoRes
    /\ exc = NoExc
    /\ clock = 1
    /\ manifest = NoManifest
    /\ log = <<>>
    /\ single = TRUE

\* render_to_pngs has returned
Returned == \E i \in 1..Len(log) : log[i].ev = "pages"

RenderNext ==
    \/ ~Returned /\ RenderConvert
    \/ ~Returned /\ RenderMove
    \/ ~Returned /\ \E n \in 1..MaxPages : RenderRaster(n)

RenderSpec == RenderInit /\ [][RenderNext]_vars

---------------------------------------------------------------------------
(* Vocabulary of the properties *)

Cases == 1..NumCases

StageOrder == <<"author", "meta", "hop1", "hop2", "render_ppt", "render_pptx">>

FinalEv(stage) == IF stage \in {"render_ppt", "render_pptx"} THEN "pages" ELSE "write"

ToolEvs == {"soffice", "pdftoppm"}

\* the stage's first event of any kind for case c is in the log
Started(c, stage) == \E i \in 1..Len(log) : log[i].c = c /\ log[i].stage = stage

Completed(c, stage) == HasEv(c, stage, FinalEv(stage))

\* "%03d" written out digit by digit, for 1 <= k <= 999
ThreeDigits(k) == <<48 + ((k \div 100) % 10), 48 + ((k \div 10) % 10), 48 + (k % 10)>>

VariantOf(stage) == IF stage = "render_ppt" THEN "ppt" ELSE "pptx"

\* every file of a case workspace, by content
Contents(w) ==
    {w.author, w.meta, w.ref_ppt, w.ref_pptx}
        \cup {w.render[v].pdf : v \in Variants}
        \cup UNION {{f.content.doc : f \in w.render[v].pngs} : v \in Variants}
        \cup {f.content : f \in w.tmp.files}

HoldsOld(w) == \E x \in Contents(w) : Gen(x) = "old"

---------------------------------------------------------------------------
(* C1 *)

\* C1: once render_to_pngs has returned for a document of N pages, the render
\* directory's page-image files are exactly slide-001.png .. slide-N.png: no
\* other slide-*.png and no __raw_slide-*.png, whatever it held before.
C1_ExactlyTheNormalizedPages ==
    \A i \in 1..Len(log) : log[i].ev = "pages" =>
        LET dir == ws[log[i].c].render[VariantOf(log[i].stage)].pngs
        IN  /\ {<<f.kind, f.suf>> : f \in dir}
                    = {<<"slide", ThreeDigits(k)>> : k \in 1..log[i].n}
            /\ Cardinality(dir) = log[i].n

\* a render of MaxPages pages has returned and slide-<MaxPages> is there
C1_Witness ==
    \E i \in 1..Len(log) :
        /\ log[i].ev = "pages" /\ log[i].n = MaxPages
        /\ \E f \in ws[log[i].c].render[VariantOf(log[i].stage)].pngs :
                f.kind = "slide" /\ f.suf = ThreeDigits(MaxPages)

---------------------------------------------------------------------------
(* C5 *)

\* C5: once render_to_pngs has returned for a document of N pages, for every
\* k in 1..N the file slide-<k, 3 digits>.png is the image pdftoppm produced
\* for page k of this run's slides.pdf.
C5_PageOrderIsDocumentOrder ==
    \A i \in 1..Len(log) : log[i].ev = "pages" =>
        LET r == ws[log[i].c].render[VariantOf(log[i].stage)]
        IN  /\ Gen(r.pdf) = "new"
            /\ \A k \in 1..log[i].n :
                \E f \in r.pngs : /\ f.kind = "slide"
                                  /\ f.suf = ThreeDigits(k)
                                  /\ f.content = [doc |-> r.pdf, page |-> k]

\* a render of more than ten pages whose slide-002 and slide-010 are pages 2, 10
C5_Witness ==
    \E i \in 1..Len(log) :
        /\ log[i].ev = "pages" /\ log[i].n > 10
        /\ LET r == ws[log[i].c].render[VariantOf(log[i].stage)]
           IN  \E f, g \in r.pngs :
                    /\ f.suf = ThreeDigits(2) /\ f.content.page = 2
                    /\ g.suf = ThreeDigits(10) /\ g.content.page = 10

---------------------------------------------------------------------------
(* C2 *)

StageExt(stage) ==
    CASE stage = "hop1" -> "ppt" [] stage = "hop2" -> "pptx" [] OTHER -> "pdf"

StageBase(stage) == IF stage = "hop1" THEN "author" ELSE "ref"

\* the conversion that has just returned or raised after a zero exit, if any
ZeroExit ==
    {i \in 1..Len(log) :
        /\ log[i].ev = "soffice" /\ log[i].rc = 0
        /\ \/ i = Len(log)
           \/ i = Len(log) - 1 /\ log[Len(log)].ev = "raise"}

\* C2: right after a zero-exit conversion, with the output directory as the
\* tool left it: a file named <input basename>.<ext> is what was returned; if
\* there is none, a file of the extension that none is newer than; and if the
\* directory has no file of the extension, FileNotFoundError and no path.
C2_Resolution ==
    \A i \in ZeroExit :
        LET dir == ws[log[i].c].tmp.files
            ext == StageExt(log[i].stage)
            named == {f \in dir : f.base = StageBase(log[i].stage) /\ f.ext = ext}
            cands == {f \in dir : f.ext = ext}
        IN  IF named # {}
              THEN pc # "failed" /\ out_path \in named
            ELSE IF cands # {}
              THEN /\ pc # "failed" /\ out_path \in cands
                   /\ \A g \in cands : g.mtime <= out_path.mtime
            ELSE pc = "failed" /\ exc.type = "FileNotFoundError" /\ out_path = NoPath

\* the expected name was returned although another file of the extension is newer
C2_Witness ==
    \E i \in ZeroExit :
        /\ out_path.base = StageBase(log[i].stage)
        /\ out_path.ext = StageExt(log[i].stage)
        /\ \E g \in ws[log[i].c].tmp.files :
                g.ext = out_path.ext /\ g.mtime > out_path.mtime

---------------------------------------------------------------------------
(* C3 *)

ConvertSteps == {"hop1", "hop2", "r_convert"}

\* the fixed destination of the hop main is at: ref.ppt, ref.pptx or slides.pdf
Dest(w, p, v) ==
    CASE p = "hop1" -> w.ref_ppt
      [] p = "hop2" -> w.ref_pptx
      [] OTHER -> w.render[v].pdf

\* C3: a conversion step that ends with the tool's nonzero exit raises an
\* error holding the exit code and the stdout and stderr run() captured, and
\* leaves the file at the hop's destination path as it was before the step.
C3_NonzeroExitKeepsDestination ==
    [][(pc \in ConvertSteps /\ pc' = "failed" /\ res'.rc # 0) =>
            /\ exc'.type = "RuntimeError"
            /\ exc'.rc = res'.rc /\ exc'.out = res'.out /\ exc'.err = res'.err
            /\ Dest(ws'[ci], pc, variant) = Dest(ws[ci], pc, variant)]_vars

\* the rendering of a variant failed with exit code 77 and captured output,
\* and the slides.pdf of an earlier run is still at the destination
C3_Witness ==
    /\ pc = "failed" /\ exc.tool = "soffice"
    /\ exc.rc = 77 /\ exc.out = "convert" /\ exc.err = "Error"
    /\ log[Len(log)].stage = "r_convert"
    /\ ws[ci].render[variant].pdf = OldPdf(variant)

---------------------------------------------------------------------------
(* C4 *)

\* C4 as the specification states it: once a case's regeneration has begun (its author document
\* was saved), its workspace holds no artifact of an earlier run.
C4_FreshWorkspace ==
    \A c \in Cases : HasEv(c, "author", "write") => ~HoldsOld(ws[c])

\* C4 as amended: an artifact is this run's once the stage that regenerates it
\* has completed, and after a run that completed no case workspace holds an
\* artifact of an earlier run.
C4_ReplacedStageByStage ==
    /\ \A c \in Cases :
        /\ Completed(c, "author") => ws[c].author = Author("new")
        /\ Completed(c, "meta") => ws[c].meta = Meta("new")
        /\ Completed(c, "hop1") => Gen(ws[c].ref_ppt) = "new"
        /\ Completed(c, "hop2") => Gen(ws[c].ref_pptx) = "new"
        /\ \A v \in Variants :
            /\ HasEv(c, RenderStage(v), "pdf") => Gen(ws[c].render[v].pdf) = "new"
            /\ Completed(c, RenderStage(v)) =>
                    \A f \in ws[c].render[v].pngs : Gen(f.content.doc) = "new"
    /\ pc = "done" => \A c \in Cases : ~HoldsOld(ws[c])

\* hop 1 of a case has completed: ref.ppt is this run's, while ref.pptx and the
\* page images of the modern variant are still those of an earlier run
C4_Witness ==
    \E c \in Cases :
        /\ Completed(c, "hop1")
        /\ ws[c].ref_ppt = Converted(Author("new"), "ppt")
        /\ ws[c].ref_pptx = OldPptx
        /\ ws[c].render["pptx"].pngs = StaleSlides("pptx")

---------------------------------------------------------------------------
(* C6 *)

\* the stage before `stage` in a case, "" for the first and for no stage
Before(stage) ==
    CASE stage = "meta" -> "author"
      [] stage = "hop1" -> "meta"
      [] stage = "hop2" -> "hop1"
      [] stage = "render_ppt" -> "hop2"
      [] stage = "render_pptx" -> "render_ppt"
      [] OTHER -> ""

\* C6: a stage of a case starts only after the stage before it (author, meta,
\* hop 1, hop 2, render ppt, render pptx) completed; hop 2 converts the file
\* hop 1 moved to ref.ppt; and no tool runs before every case's meta.json is
\* written, so every meta.json exists whenever a tool has failed.
C6_StageOrder ==
    /\ \A i \in 1..Len(log) :
        Before(log[i].stage) # "" =>
            \E j \in 1..(i - 1) :
                /\ log[j].c = log[i].c
                /\ log[j].stage = Before(log[i].stage)
                /\ log[j].ev = FinalEv(log[j].stage)
    /\ \A c \in Cases :
        /\ Completed(c, "hop1") => ws[c].ref_ppt = Converted(Author("new"), "ppt")
        /\ Completed(c, "hop2") => ws[c].ref_pptx = Converted(ws[c].ref_ppt, "pptx")
    /\ (\E i \in 1..Len(log) : log[i].ev \in ToolEvs) =>
            \A c \in Cases : Completed(c, "meta") /\ ws[c].meta = Meta("new")
    /\ (pc = "failed" /\ exc.tool # "") => \A c \in Cases : ws[c].meta = Meta("new")

\* the first case's hop 1 has failed and the last case's meta.json is written
C6_Witness ==
    /\ pc = "failed" /\ exc.tool = "soffice" /\ ci = 1
    /\ log[Len(log)].stage = "hop1"
    /\ ws[NumCases].meta = Meta("new")
    /\ ~Started(NumCases, "hop1")

---------------------------------------------------------------------------
(* C7 *)

\* C7: nothing follows a failure (no tool invocation, no artifact write, no
\* manifest: main has ended), and no tool is invoked twice for one stage of
\* one case.
C7_FailFastNoRetry ==
    /\ \A i \in 1..Len(log) : log[i].ev = "raise" => i = Len(log)
    /\ exc.type # "none" => pc = "failed" /\ manifest.gen # "new"
    /\ (\E i \in 1..Len(log) : log[i].ev = "raise") => exc.type # "none"
    /\ LET calls == {i \in 1..Len(log) : log[i].ev \in ToolEvs}
       IN  Cardinality({<<log[i].c, log[i].stage, log[i].ev>> : i \in calls})
                = Cardinality(calls)

\* the first case failed on a missing conversion output; no later case was
\* converted and the manifest was not written
C7_Witness ==
    /\ pc = "failed" /\ exc.type = "FileNotFoundError" /\ ci = 1
    /\ NumCases > 1
    /\ \A c \in 2..NumCases : ~Started(c, "hop1")
    /\ manifest.gen # "new"

---------------------------------------------------------------------------
(* C8 *)

ManifestWrites == {i \in 1..Len(log) : log[i].stage = "manifest"}

\* C8: if this run wrote the manifest, it wrote it once, as the last thing
\* after every stage of every case completed, and its cases are the registry's
\* (id, slides, level as declared; no builder) in registry order; and the step
\* that writes the manifest changes no case workspace.
C8_ManifestFromRegistry ==
    /\ [](/\ Cardinality(ManifestWrites) <= 1
          /\ (manifest.gen = "new") = (ManifestWrites # {})
          /\ manifest.gen = "new" =>
                /\ ManifestWrites = {Len(log)}
                /\ \A c \in Cases : \A k \in 1..Len(StageOrder) : Completed(c, StageOrder[k])
                /\ Len(manifest.cases) = NumCases
                /\ \A i \in 1..NumCases :
                        manifest.cases[i] = [id |-> CaseIds[i], slides |-> CaseSlides[i],
                                             level |-> CaseLevels[i]])
    /\ [][manifest' # manifest => ws' = ws]_vars

\* the manifest is written although a case rendered another number of pages
\* than it declares
C8_Witness ==
    /\ pc = "done" /\ manifest.gen = "new"
    /\ \E c \in Cases :
        Cardinality(ws[c].render["pptx"].pngs) # manifest.cases[c].slides

---------------------------------------------------------------------------
(* C9 *)

\* C9 as the specification states it: when main has ended, by completing or by a failed hop or
\* rasterization, the case it was at has no _lo_out directory.
C9_TmpCleanedOnEveryExit ==
    (pc = "done" \/ (pc = "failed" /\ exc.tool # "")) => ~ws[ci].tmp.exists

---------------------------------------------------------------------------
(* C10 *)

\* C10: if every zero-exit conversion so far wrote exactly one file, then
\* whenever soffice_convert is about to be called _lo_out has no file of the
\* requested extension, and the path it returns is the file this call wrote.
C10_NoStaleCandidate ==
    single =>
        /\ pc \in ConvertSteps =>
                /\ ws[ci].tmp.exists
                /\ \A f \in ws[ci].tmp.files : f.ext # StageExt(pc)
        /\ pc \in {"mv1", "mv2", "r_move"} =>
                /\ out_path.mtime = clock
                /\ Gen(out_path.content) = "new"
                /\ out_path \in ws[ci].tmp.files

\* the pdf of the legacy variant was found by the fallback, in a workspace
\* whose earlier run aborted (its raw page is still there) and left an out.pdf
\* in _lo_out
C10_Witness ==
    /\ single /\ pc = "r_move" /\ variant = "ppt"
    /\ out_path.base = "out" /\ out_path.ext = "pdf"
    /\ \E f \in ws[ci].render["ppt"].pngs : f.kind = "raw" /\ Gen(f.content.doc) = "old"

====
